---- MODULE Spec2Model ----
(***************************************************************************)
(* Model of src/data/imdb_data_downloader.py: the IMDb dataset downloader. *)
(*                                                                         *)
(* run_pipeline creates the output directory, then visits the four files   *)
(* of FILES_TO_DOWNLOAD in order.  A file whose extracted form exists is   *)
(* skipped; otherwise download_file streams the archive to disk and        *)
(* extract_gzip decompresses it and removes the archive.  Any exception of *)
(* the two calls is caught per file and the loop continues.                *)
(*                                                                         *)
(* Files are modelled by their content: a sequence of blocks (one block is *)
(* one chunk of iter_content / one unit of the gzip stream).  A raw byte   *)
(* block is a number 1..9; in an archive the gzip member header is 0, a    *)
(* deflated data block is the raw block plus 10, the member trailer is 99. *)
(***************************************************************************)
EXTENDS Naturals, Sequences, FiniteSets

(* ------------------------------ bounds --------------------------------- *)

\* faults (transport, status, I/O, corrupt payload) injected over a behaviour
MaxFaults == 1
\* files that already exist in the output directory before the first run
MaxInitFiles == 2
\* invocations of run_pipeline in one behaviour
MaxRuns == 2

(* --------------------------- configuration ----------------------------- *)

FILES_TO_DOWNLOAD ==
    << <<"t","i","t","l","e",".","b","a","s","i","c","s",".","t","s","v",".","g","z">>,
       <<"t","i","t","l","e",".","r","a","t","i","n","g","s",".","t","s","v",".","g","z">>,
       <<"n","a","m","e",".","b","a","s","i","c","s",".","t","s","v",".","g","z">>,
       <<"t","i","t","l","e",".","c","r","e","w",".","t","s","v",".","g","z">> >>

NumFiles == Len(FILES_TO_DOWNLOAD)

Resources == 1..NumFiles

(* ------------------------------ paths ---------------------------------- *)

\* str.replace('.gz', ''): every non-overlapping occurrence, left to right
RECURSIVE ReplaceGz(_)
ReplaceGz(s) ==
    IF Len(s) = 0 THEN <<>>
    ELSE IF Len(s) >= 3 /\ SubSeq(s, 1, 3) = <<".", "g", "z">>
         THEN ReplaceGz(SubSeq(s, 4, Len(s)))
         ELSE <<Head(s)>> \o ReplaceGz(Tail(s))

\* str.rfind('.') on the file name, 1-based; 0 when there is no dot
LastDot(s) ==
    LET dots == {i \in 1..Len(s) : s[i] = "."}
    IN  IF dots = {} THEN 0 ELSE CHOOSE i \in dots : \A j \in dots : j <= i

\* WithSuffixEmpty that strips every suffix, from the first dot on
WithSuffixEmpty_AllSuffixes(s) ==
    LET dots == {i \in 2..Len(s) : s[i] = "."}
    IN  IF dots = {} THEN s
        ELSE SubSeq(s, 1, (CHOOSE i \in dots : \A j \in dots : i <= j) - 1)

\* PurePath.with_suffix(''): the name without its last suffix; a leading or
\* a trailing dot starts no suffix
WithSuffixEmpty(s) ==
    LET d == LastDot(s)
    IN  IF 1 < d /\ d < Len(s) THEN SubSeq(s, 1, d - 1) ELSE s

\* gz_path = OUTPUT_DIR / filename
GzPath(i) == FILES_TO_DOWNLOAD[i]

GzPaths == {GzPath(i) : i \in Resources}

\* the extracted path the loop tests, per file of the list
TsvPathOf == [i \in Resources |-> ReplaceGz(FILES_TO_DOWNLOAD[i])]

\* tsv_path = OUTPUT_DIR / filename.replace('.gz', '')
TsvPath(i) == TsvPathOf[i]

\* the output path extract_gzip derives, per archive path of the list
OutputPathOf == [p \in GzPaths |-> WithSuffixEmpty(p)]

\* output_path = file_path.with_suffix('')
OutputPath(p) == OutputPathOf[p]

PlainPaths == {TsvPath(i) : i \in Resources} \cup {OutputPath(GzPath(i)) : i \in Resources}

Paths == GzPaths \cup PlainPaths

(* ------------------------------ files ---------------------------------- *)

NoFile == [exists |-> FALSE, data |-> <<>>]

File(d) == [exists |-> TRUE, data |-> d]

(* ------------------------------ gzip ----------------------------------- *)

IsMagic(b) == b = 0

IsTrailer(b) == b = 99

IsDeflated(b) == b > 10 /\ b < 20

Deflate(d) == d + 10

Inflate(b) == b - 10

\* a one-member gzip stream of the raw blocks
Gzip(raw) == <<0>> \o [k \in 1..Len(raw) |-> Deflate(raw[k])] \o <<99>>

\* One step of the decompressor of gzip.open(..., 'rb') on the next block b
\* (atEnd: the archive has no next block).  zs is "hdr" at a member boundary
\* and "body" inside a member.  Result: the new state, the raw blocks
\* produced, and what happened: "more", "eof" (clean end; an empty file is a
\* clean end too) or "error" (BadGzipFile, EOFError, zlib.error).
GzStep(zs, atEnd, b) ==
    IF atEnd
    THEN IF zs = "hdr"
         THEN [zs |-> zs, out |-> <<>>, res |-> "eof"]
         ELSE [zs |-> zs, out |-> <<>>, res |-> "error"]
    ELSE IF zs = "hdr"
         THEN IF IsMagic(b)
              THEN [zs |-> "body", out |-> <<>>, res |-> "more"]
              ELSE [zs |-> zs, out |-> <<>>, res |-> "error"]
         ELSE IF IsTrailer(b)
              THEN [zs |-> "hdr", out |-> <<>>, res |-> "more"]
              ELSE IF IsDeflated(b)
                   THEN [zs |-> zs, out |-> <<Inflate(b)>>, res |-> "more"]
                   ELSE [zs |-> zs, out |-> <<>>, res |-> "error"]

\* The whole decompression of an archive from block k on: the raw blocks
\* written before it stops, and whether it stopped cleanly.
RECURSIVE GunzipFrom(_, _, _)
GunzipFrom(arch, k, zs) ==
    LET atEnd == k > Len(arch)
        st == GzStep(zs, atEnd, IF atEnd THEN 0 ELSE arch[k])
    IN  IF st.res = "eof" THEN [ok |-> TRUE, out |-> <<>>]
        ELSE IF st.res = "error" THEN [ok |-> FALSE, out |-> <<>>]
        ELSE LET rest == GunzipFrom(arch, k + 1, st.zs)
             IN  [ok |-> rest.ok, out |-> st.out \o rest.out]

Gunzip(arch) == GunzipFrom(arch, 1, "hdr")

(* --------------------------- the environment --------------------------- *)

\* what BASE_URL + filename serves when the source behaves
SourcePayloads == {Gzip(<<1, 2>>)}

\* what a misbehaving source serves with a success status: an empty body,
\* a member cut before its trailer, a body that is not gzip
OddPayloads == {<<>>, <<0, 11>>, <<11, 99>>}

\* content of the files found in the output directory before the first run
InitContent(p) == IF p \in GzPaths THEN Gzip(<<3>>) ELSE <<5>>

NoResponse == [got |-> FALSE, body |-> <<>>]

(* ------------------------------- state --------------------------------- *)

VARIABLES
    run,        \* number of the current invocation of run_pipeline
    pc,         \* position of the invocation in the code
    idx,        \* index in FILES_TO_DOWNLOAD of the file being processed
    dirState,   \* OUTPUT_DIR: "absent", "dir", or "file" (not a directory)
    fs,         \* content of OUTPUT_DIR: path -> file
    response,   \* per file, the response body received by requests.get
    sent,       \* chunks of the response already written by download_file
    pos,        \* archive blocks already consumed by copyfileobj
    zs,         \* state of the decompressor
    faults,     \* faults injected so far
    fs0,        \* history: fs when the current invocation started
    dir0,       \* history: dirState when the current invocation started
    status,     \* history: per file, how far its processing got in this run
    failure,    \* history: per file, what made it fail in this run
    dlCalls,    \* history: per file, calls of download_file in this run
    exCalls,    \* history: per file, calls of extract_gzip in this run
    visited     \* history: the files the loop has reached, in order

vars == <<run, pc, idx, dirState, fs, response, sent, pos, zs, faults,
          fs0, dir0, status, failure, dlCalls, exCalls, visited>>

Statuses == {"Pending", "Skipped", "Fetching", "Fetched", "Extracting", "Done", "Failed"}

InitFs(d) ==
    IF d # "dir" THEN {[p \in Paths |-> FALSE]}
    ELSE {f \in [Paths -> {TRUE, FALSE}] :
             Cardinality({p \in Paths : f[p]}) <= MaxInitFiles}

Init ==
    /\ run = 1
    /\ pc = "start"
    /\ idx = 1
    /\ dirState \in {"absent", "dir", "file"}
    /\ \E f \in InitFs(dirState) :
          fs = [p \in Paths |-> IF f[p] = TRUE THEN File(InitContent(p)) ELSE NoFile]
    /\ response = [i \in Resources |-> NoResponse]
    /\ sent = 0
    /\ pos = 0
    /\ zs = "hdr"
    /\ faults = 0
    /\ fs0 = fs
    /\ dir0 = dirState
    /\ status = [i \in Resources |-> "Pending"]
    /\ failure = [i \in Resources |-> "none"]
    /\ dlCalls = [i \in Resources |-> 0]
    /\ exCalls = [i \in Resources |-> 0]
    /\ visited = <<>>

(* --------------------------- run_pipeline ------------------------------ *)

SetStatus(i, st) == [status EXCEPT ![i] = st]

\* `continue` / end of the loop body: the next file, or the end of the list
LoopNextPc(i) == IF i < NumFiles THEN "check" ELSE "done"

\* LoopNextIdx stepping over a file of the list
LoopNextIdx_Stride(i) == IF i + 2 <= NumFiles THEN i + 2 ELSE NumFiles

LoopNextIdx(i) == IF i < NumFiles THEN i + 1 ELSE i

\* Abandon with `break` in place of `continue`: the loop ends at the first failure
Abandon_Break(kind) ==
    /\ status' = SetStatus(idx, "Failed")
    /\ failure' = [failure EXCEPT ![idx] = kind]
    /\ pc' = "done"
    /\ idx' = idx
    /\ sent' = 0
    /\ pos' = 0
    /\ zs' = "hdr"

\* Abandon without the try/except: the exception leaves run_pipeline
Abandon_Raise(kind) ==
    /\ status' = SetStatus(idx, "Failed")
    /\ failure' = [failure EXCEPT ![idx] = kind]
    /\ pc' = "raised"
    /\ idx' = idx
    /\ sent' = 0
    /\ pos' = 0
    /\ zs' = "hdr"

\* Abandon that retries the failed file instead of moving on
Abandon_Retry(kind) ==
    /\ status' = SetStatus(idx, "Failed")
    /\ failure' = [failure EXCEPT ![idx] = kind]
    /\ pc' = "check"
    /\ idx' = idx
    /\ sent' = 0
    /\ pos' = 0
    /\ zs' = "hdr"

\* except Exception: ... continue  -- the file is abandoned as it is
Abandon(kind) ==
    /\ status' = SetStatus(idx, "Failed")
    /\ failure' = [failure EXCEPT ![idx] = kind]
    /\ pc' = LoopNextPc(idx)
    /\ idx' = LoopNextIdx(idx)
    /\ sent' = 0
    /\ pos' = 0
    /\ zs' = "hdr"

\* an injected fault, within the budget
Fault == faults < MaxFaults /\ faults' = faults + 1

\* Mkdir without exist_ok=True: an existing directory raises too
Mkdir_NoExistOk ==
    /\ pc = "start"
    /\ IF dirState # "absent"
       THEN /\ pc' = "raised"
            /\ UNCHANGED dirState
       ELSE /\ pc' = "check"
            /\ dirState' = "dir"
    /\ idx' = 1
    /\ UNCHANGED <<run, fs, response, sent, pos, zs, faults, fs0, dir0,
                   status, failure, dlCalls, exCalls, visited>>

\* OUTPUT_DIR.mkdir(parents=True, exist_ok=True): raises when the path is
\* taken by something that is not a directory; the call is outside any try
Mkdir ==
    /\ pc = "start"
    /\ IF dirState = "file"
       THEN /\ pc' = "raised"
            /\ UNCHANGED dirState
       ELSE /\ pc' = "check"
            /\ dirState' = "dir"
    /\ idx' = 1
    /\ UNCHANGED <<run, fs, response, sent, pos, zs, faults, fs0, dir0,
                   status, failure, dlCalls, exCalls, visited>>

\* the idempotency check made on the archive instead of the extracted file
TsvExists_Archive(i) == fs[GzPath(i)].exists

\* the idempotency check of the loop body
TsvExists(i) == fs[TsvPath(i)].exists

\* for filename in FILES_TO_DOWNLOAD: ... if tsv_path.exists(): continue
\* else: download_file(file_url, gz_path) is called
Check ==
    /\ pc = "check"
    /\ visited' = Append(visited, idx)
    /\ IF TsvExists(idx)
       THEN /\ status' = SetStatus(idx, "Skipped")
            /\ pc' = LoopNextPc(idx)
            /\ idx' = LoopNextIdx(idx)
            /\ UNCHANGED dlCalls
       ELSE /\ status' = SetStatus(idx, "Fetching")
            /\ dlCalls' = [dlCalls EXCEPT ![idx] = @ + 1]
            /\ pc' = "get"
            /\ UNCHANGED idx
    /\ UNCHANGED <<run, dirState, fs, response, sent, pos, zs, faults, fs0, dir0,
                   failure, exCalls>>

(* --------------------------- download_file ----------------------------- *)

\* requests.get raises (no connection, DNS, timeout ...)
GetConnError ==
    /\ pc = "get"
    /\ Fault
    /\ Abandon("connection")
    /\ UNCHANGED <<run, dirState, fs, response, fs0, dir0, dlCalls, exCalls, visited>>

\* GetHttpError with the destination opened before the status is inspected
GetHttpError_OpenFirst ==
    /\ pc = "get"
    /\ Fault
    /\ fs' = [fs EXCEPT ![GzPath(idx)] = File(<<>>)]
    /\ Abandon("http_status")
    /\ UNCHANGED <<run, dirState, response, fs0, dir0, dlCalls, exCalls, visited>>

\* response.raise_for_status() raises on 4xx/5xx
GetHttpError ==
    /\ pc = "get"
    /\ Fault
    /\ Abandon("http_status")
    /\ UNCHANGED <<run, dirState, fs, response, fs0, dir0, dlCalls, exCalls, visited>>

\* a success status: the body will be streamed
GetOk ==
    /\ pc = "get"
    /\ \/ /\ \E b \in SourcePayloads : response' = [response EXCEPT ![idx] = [got |-> TRUE, body |-> b]]
          /\ UNCHANGED faults
       \/ /\ \E b \in OddPayloads : response' = [response EXCEPT ![idx] = [got |-> TRUE, body |-> b]]
          /\ Fault
    /\ pc' = "open_dest"
    /\ UNCHANGED <<run, idx, dirState, fs, sent, pos, zs, fs0, dir0,
                   status, failure, dlCalls, exCalls, visited>>

\* Truncate with mode 'ab': an existing file keeps its content
Truncate_Append(p) == IF fs[p].exists THEN fs ELSE [fs EXCEPT ![p] = File(<<>>)]

\* open(dest_path, 'wb'): creates the file or truncates it
Truncate(p) == [fs EXCEPT ![p] = File(<<>>)]

\* OpenDest that also creates the extracted file as a placeholder
OpenDest_Marker ==
    /\ pc = "open_dest"
    /\ fs' = [fs EXCEPT ![GzPath(idx)] = File(<<>>), ![TsvPath(idx)] = File(<<>>)]
    /\ sent' = 0
    /\ pc' = "stream"
    /\ UNCHANGED <<run, idx, dirState, response, pos, zs, faults, fs0, dir0,
                   status, failure, dlCalls, exCalls, visited>>

OpenDest ==
    /\ pc = "open_dest"
    /\ fs' = Truncate(GzPath(idx))
    /\ sent' = 0
    /\ pc' = "stream"
    /\ UNCHANGED <<run, idx, dirState, response, pos, zs, faults, fs0, dir0,
                   status, failure, dlCalls, exCalls, visited>>

\* open(dest_path, 'wb') raises OSError
OpenDestError ==
    /\ pc = "open_dest"
    /\ Fault
    /\ Abandon("dest_open")
    /\ UNCHANGED <<run, dirState, fs, response, fs0, dir0, dlCalls, exCalls, visited>>

\* WriteChunk through one download file shared by all the files of the list
WriteChunk_Shared(p, chunk) == [fs EXCEPT ![GzPath(1)].data = Append(@, chunk)]

\* f.write(chunk): the chunk is appended to the destination
WriteChunk(p, chunk) == [fs EXCEPT ![p].data = Append(@, chunk)]

\* for chunk in response.iter_content(...): f.write(chunk)
StreamChunk ==
    /\ pc = "stream"
    /\ sent < Len(response[idx].body)
    /\ fs' = WriteChunk(GzPath(idx), response[idx].body[sent + 1])
    /\ sent' = sent + 1
    /\ UNCHANGED <<run, pc, idx, dirState, response, pos, zs, faults, fs0, dir0,
                   status, failure, dlCalls, exCalls, visited>>

\* the transfer breaks in the middle of the body: what was written stays
StreamError ==
    /\ pc = "stream"
    /\ Fault
    /\ Abandon("stream")
    /\ UNCHANGED <<run, dirState, fs, response, fs0, dir0, dlCalls, exCalls, visited>>

\* the body is exhausted: download_file returns
StreamDone ==
    /\ pc = "stream"
    /\ sent = Len(response[idx].body)
    /\ status' = SetStatus(idx, "Fetched")
    /\ sent' = 0
    /\ pc' = "call_extract"
    /\ UNCHANGED <<run, idx, dirState, fs, response, pos, zs, faults, fs0, dir0,
                   failure, dlCalls, exCalls, visited>>

(* ---------------------------- extract_gzip ----------------------------- *)

\* extract_gzip(gz_path) is called
CallExtract ==
    /\ pc = "call_extract"
    /\ status' = SetStatus(idx, "Extracting")
    /\ exCalls' = [exCalls EXCEPT ![idx] = @ + 1]
    /\ pc' = "open_files"
    /\ UNCHANGED <<run, idx, dirState, fs, response, sent, pos, zs, faults, fs0, dir0,
                   failure, dlCalls, visited>>

\* gzip.open(file_path, 'rb') then open(output_path, 'wb'): the archive must
\* exist; the output is created or truncated before any block is read
OpenFiles ==
    /\ pc = "open_files"
    /\ IF fs[GzPath(idx)].exists
       THEN /\ fs' = Truncate(OutputPath(GzPath(idx)))
            /\ pos' = 0
            /\ zs' = "hdr"
            /\ pc' = "copy"
            /\ UNCHANGED <<idx, sent, status, failure>>
       ELSE /\ Abandon("no_archive")
            /\ UNCHANGED fs
    /\ UNCHANGED <<run, dirState, response, faults, fs0, dir0, dlCalls, exCalls, visited>>

\* open(output_path, 'wb') raises OSError
OpenOutputError ==
    /\ pc = "open_files"
    /\ Fault
    /\ Abandon("output_open")
    /\ UNCHANGED <<run, dirState, fs, response, fs0, dir0, dlCalls, exCalls, visited>>

\* the decompressor's step on the next block of the archive
CopyStep ==
    LET arch == fs[GzPath(idx)].data
        atEnd == pos >= Len(arch)
    IN  GzStep(zs, atEnd, IF atEnd THEN 0 ELSE arch[pos + 1])

\* WriteOut that replaces the output instead of appending to it
WriteOut_Overwrite(p, out) == [fs EXCEPT ![p].data = out]

\* f_out.write of the raw blocks a step produced
WriteOut(p, out) == [fs EXCEPT ![p].data = @ \o out]

\* shutil.copyfileobj(f_in, f_out): one block decompressed and written
CopyBlock ==
    /\ pc = "copy"
    /\ CopyStep.res = "more"
    /\ fs' = WriteOut(OutputPath(GzPath(idx)), CopyStep.out)
    /\ pos' = pos + 1
    /\ zs' = CopyStep.zs
    /\ UNCHANGED <<run, pc, idx, dirState, response, sent, faults, fs0, dir0,
                   status, failure, dlCalls, exCalls, visited>>

\* the archive ends at a member boundary: both files are closed
CopyDone ==
    /\ pc = "copy"
    /\ CopyStep.res = "eof"
    /\ pos' = 0
    /\ pc' = "remove"
    /\ UNCHANGED <<run, idx, dirState, fs, response, sent, zs, faults, fs0, dir0,
                   status, failure, dlCalls, exCalls, visited>>

\* CopyCorrupt with the partial output removed on failure
CopyCorrupt_RemoveOutput ==
    /\ pc = "copy"
    /\ CopyStep.res = "error"
    /\ fs' = [fs EXCEPT ![OutputPath(GzPath(idx))] = NoFile]
    /\ Abandon("decompress")
    /\ UNCHANGED <<run, dirState, response, faults, fs0, dir0, dlCalls, exCalls, visited>>

\* CopyCorrupt with the archive removed in a cleanup on failure
CopyCorrupt_Cleanup ==
    /\ pc = "copy"
    /\ CopyStep.res = "error"
    /\ fs' = [fs EXCEPT ![GzPath(idx)] = NoFile]
    /\ Abandon("decompress")
    /\ UNCHANGED <<run, dirState, response, faults, fs0, dir0, dlCalls, exCalls, visited>>

\* the archive is not a gzip stream, or ends inside a member
CopyCorrupt ==
    /\ pc = "copy"
    /\ CopyStep.res = "error"
    /\ Abandon("decompress")
    /\ UNCHANGED <<run, dirState, fs, response, faults, fs0, dir0, dlCalls, exCalls, visited>>

\* reading the archive or writing the output raises OSError
CopyIoError ==
    /\ pc = "copy"
    /\ Fault
    /\ Abandon("io")
    /\ UNCHANGED <<run, dirState, fs, response, fs0, dir0, dlCalls, exCalls, visited>>

\* RemoveFile that removes nothing
RemoveFile_Keep(p) == fs

\* os.remove(file_path)
RemoveFile(p) == [fs EXCEPT ![p] = NoFile]

\* os.remove succeeds: extract_gzip returns, the loop body ends
RemoveArchive ==
    /\ pc = "remove"
    /\ fs' = RemoveFile(GzPath(idx))
    /\ status' = SetStatus(idx, "Done")
    /\ pc' = LoopNextPc(idx)
    /\ idx' = LoopNextIdx(idx)
    /\ UNCHANGED <<run, dirState, response, sent, pos, zs, faults, fs0, dir0,
                   failure, dlCalls, exCalls, visited>>

\* os.remove raises OSError
RemoveError ==
    /\ pc = "remove"
    /\ Fault
    /\ Abandon("remove")
    /\ UNCHANGED <<run, dirState, fs, response, fs0, dir0, dlCalls, exCalls, visited>>

(* ------------------------------ the runs ------------------------------- *)

\* if __name__ == "__main__": run_pipeline()  -- a later manual run, on the
\* directory as the previous run left it
NewRun ==
    /\ pc = "done"
    /\ run < MaxRuns
    /\ run' = run + 1
    /\ pc' = "start"
    /\ idx' = 1
    /\ response' = [i \in Resources |-> NoResponse]
    /\ fs0' = fs
    /\ dir0' = dirState
    /\ status' = [i \in Resources |-> "Pending"]
    /\ failure' = [i \in Resources |-> "none"]
    /\ dlCalls' = [i \in Resources |-> 0]
    /\ exCalls' = [i \in Resources |-> 0]
    /\ visited' = <<>>
    /\ UNCHANGED <<dirState, fs, sent, pos, zs, faults>>

\* one step of an invocation of run_pipeline
RunStep ==
    \/ Mkdir
    \/ Check
    \/ GetConnError
    \/ GetHttpError
    \/ GetOk
    \/ OpenDest
    \/ OpenDestError
    \/ StreamChunk
    \/ StreamError
    \/ StreamDone
    \/ CallExtract
    \/ OpenFiles
    \/ OpenOutputError
    \/ CopyBlock
    \/ CopyDone
    \/ CopyCorrupt
    \/ CopyIoError
    \/ RemoveArchive
    \/ RemoveError

Next == RunStep \/ NewRun

Spec == Init /\ [][Next]_vars

\* an invocation keeps executing: every call of the loop body returns or raises
FairSpec == Init /\ [][Next]_vars /\ WF_vars(RunStep)

TypeOK ==
    /\ run \in 1..MaxRuns
    /\ pc \in {"start", "check", "get", "open_dest", "stream", "call_extract",
                "open_files", "copy", "remove", "done", "raised"}
    /\ idx \in Resources
    /\ dirState \in {"absent", "dir", "file"}
    /\ DOMAIN fs = Paths
    /\ \A i \in Resources : status[i] \in Statuses
    /\ faults \in 0..MaxFaults

(* ------------------------------ properties ----------------------------- *)

Resolved(i) == status[i] \in {"Skipped", "Done", "Failed"}

\* the loop has left file i behind
MovedPast(i) == IF i < NumFiles THEN idx > i \/ pc = "done" ELSE pc = "done"

IsPrefix(a, b) == Len(a) <= Len(b) /\ a = SubSeq(b, 1, Len(a))

\* C1 (idempotency): a file whose extracted form exists when the run starts
\* has neither download_file nor extract_gzip called for it in that run, and
\* its extracted file keeps the content it had at the start, at every moment
\* of the run and so at its end, whatever happens to the other files.
C1_Idempotent ==
    \A i \in Resources :
        fs0[TsvPath(i)].exists =>
            /\ dlCalls[i] = 0
            /\ exCalls[i] = 0
            /\ fs[TsvPath(i)] = fs0[TsvPath(i)]
            /\ status[i] \in {"Pending", "Skipped"}

\* a finished run that skipped an existing extracted file while another file failed
C1_Witness ==
    /\ pc = "done"
    /\ \E i, j \in Resources :
          /\ fs0[TsvPath(i)].exists
          /\ status[i] = "Skipped"
          /\ status[j] = "Failed"

\* C2 (failure isolation): the files are visited in list order; once a file
\* has failed the loop has moved on to the next file (or, after the last
\* one, to the end); and when the loop ends every file has been visited and
\* every file that was not skipped has had download_file called for it.
C2_FailureIsolation ==
    /\ \A k \in 1..Len(visited) : visited[k] = k
    /\ \A i \in Resources : status[i] = "Failed" => MovedPast(i) /\ pc # "raised"
    /\ pc = "check" => ENABLED Check
    /\ pc = "done" =>
          /\ Len(visited) = NumFiles
          /\ \A i \in Resources :
                /\ Resolved(i)
                /\ status[i] # "Skipped" => dlCalls[i] = 1

\* a finished run in which the second file failed and the third and fourth
\* were fetched all the same
C2_Witness ==
    /\ pc = "done"
    /\ status[2] = "Failed"
    /\ dlCalls[3] = 1
    /\ dlCalls[4] = 1
    /\ status[3] = "Done"

\* C3 (round trip): a file that is Done had no extracted file at the start
\* of the run, the body served for it is a stream that decompresses cleanly,
\* its archive is gone, and its extracted file holds exactly the
\* decompression of the served body.
C3_RoundTrip ==
    \A i \in Resources :
        status[i] = "Done" =>
            /\ ~fs0[TsvPath(i)].exists
            /\ response[i].got
            /\ Gunzip(response[i].body).ok
            /\ ~fs[GzPath(i)].exists
            /\ fs[TsvPath(i)] = File(Gunzip(response[i].body).out)

\* a file is Done and its extracted file holds the two raw blocks served
C3_Witness ==
    \E i \in Resources :
        /\ status[i] = "Done"
        /\ response[i].body = Gzip(<<1, 2>>)
        /\ fs[TsvPath(i)] = File(<<1, 2>>)

PcRank(p) ==
    CASE p = "check" -> 90
      [] p = "get" -> 80
      [] p = "open_dest" -> 70
      [] p = "stream" -> 60
      [] p = "call_extract" -> 50
      [] p = "open_files" -> 40
      [] p = "copy" -> 30
      [] p = "remove" -> 10
      [] OTHER -> 0

\* a bound on the steps the invocation still has to take
Measure ==
    IF pc = "start" THEN (NumFiles + 1) * 100
    ELSE IF pc \in {"done", "raised"} THEN 0
    ELSE (NumFiles - idx) * 100 + PcRank(pc)
           - (IF pc = "stream" THEN sent ELSE IF pc = "copy" THEN pos ELSE 0)

C5_HttpError ==
    \A i \in Resources :
        failure[i] = "http_status" =>
            /\ status[i] = "Failed"
            /\ ~response[i].got
            /\ fs[GzPath(i)] = fs0[GzPath(i)]
            /\ ~fs[TsvPath(i)].exists
            /\ exCalls[i] = 0
            /\ MovedPast(i)
            /\ pc # "raised"

\* the second file got an error status and the third was processed to Done
C5_Witness ==
    /\ failure[2] = "http_status"
    /\ status[3] = "Done"

\* C6 (corrupt archive): a file whose decompression failed is Failed and its
\* archive is still on disk, unchanged; a file whose served body does not
\* decompress cleanly never ends Done; and whenever an archive of the list
\* disappears, it is extract_gzip's removal, taken after the whole archive
\* was decompressed without error into the output file.
C6_CorruptArchive ==
    /\ [](\A i \in Resources :
            /\ failure[i] = "decompress" =>
                  /\ status[i] = "Failed"
                  /\ exCalls[i] = 1
                  /\ fs[GzPath(i)] = File(response[i].body)
                  /\ ~Gunzip(response[i].body).ok
            /\ (response[i].got /\ ~Gunzip(response[i].body).ok) => status[i] # "Done")
    /\ [][\A i \in Resources :
            (fs[GzPath(i)].exists /\ ~fs'[GzPath(i)].exists) =>
                /\ pc = "remove"
                /\ idx = i
                /\ Gunzip(fs[GzPath(i)].data).ok
                /\ fs[OutputPath(GzPath(i))] = File(Gunzip(fs[GzPath(i)].data).out)]_vars

\* decompression of a file failed: its archive is there, beside a truncated output
C6_Witness ==
    \E i \in Resources :
        /\ failure[i] = "decompress"
        /\ fs[GzPath(i)].exists
        /\ fs[TsvPath(i)] = File(<<1>>)

\* C7 as claimed: at the end of a run without a Failed file no file has both
\* its archive and its extracted file on disk.
C7_Original ==
    (pc = "done" /\ \A i \in Resources : status[i] # "Failed") =>
        \A i \in Resources : ~(fs[GzPath(i)].exists /\ fs[TsvPath(i)].exists)

\* C7 (amended): at the end of a run without a Failed file, a file has both
\* its archive and its extracted file on disk only if it had both when the
\* run started and was Skipped; every file that was processed has its
\* extracted file and no archive.
C7_Exclusive ==
    (pc = "done" /\ \A i \in Resources : status[i] # "Failed") =>
        \A i \in Resources :
            /\ (fs[GzPath(i)].exists /\ fs[TsvPath(i)].exists) =>
                  /\ status[i] = "Skipped"
                  /\ fs0[GzPath(i)].exists
                  /\ fs0[TsvPath(i)].exists
            /\ status[i] # "Skipped" =>
                  /\ ~fs[GzPath(i)].exists
                  /\ fs[TsvPath(i)].exists

\* a run without failure ended with one file extracted and its archive gone,
\* and with a skipped file that has both files
C7_Witness ==
    /\ pc = "done"
    /\ \A i \in Resources : status[i] # "Failed"
    /\ \E i \in Resources :
          status[i] = "Done" /\ ~fs[GzPath(i)].exists /\ fs[TsvPath(i)].exists
    /\ \E i \in Resources :
          status[i] = "Skipped" /\ fs[GzPath(i)].exists /\ fs[TsvPath(i)].exists

\* C8 (directory creation): the output directory exists whenever the run is
\* anywhere in or after the loop, so before any idempotency check, fetch or
\* extraction; no file is visited, fetched or written without it; and mkdir
\* raises neither for a missing nor for an existing directory.
C8_DirectoryFirst ==
    /\ pc \notin {"start", "raised"} => dirState = "dir"
    /\ (visited # <<>> \/ \E i \in Resources : status[i] # "Pending") => dirState = "dir"
    /\ fs # fs0 => dirState = "dir"
    /\ pc = "raised" => dir0 = "file"

\* the run started without the directory and is about to check the first file
C8_Witness ==
    /\ dir0 = "absent"
    /\ dirState = "dir"
    /\ pc = "check"
    /\ idx = 1
    /\ visited = <<>>

\* the status changes the per-file state machine allows
Transitions ==
    { <<"Pending", "Skipped">>, <<"Pending", "Fetching">>, <<"Fetching", "Fetched">>,
      <<"Fetched", "Extracting">>, <<"Extracting", "Done">>,
      <<"Fetching", "Failed">>, <<"Extracting", "Failed">> }

\* C9 (per-file state machine): within a run a file's status changes only
\* along Pending -> Skipped, Pending -> Fetching -> Fetched -> Extracting ->
\* Done, Fetching -> Failed, Extracting -> Failed; download_file and
\* extract_gzip are called at most once per file and run, and extract_gzip
\* only for a file that is Fetched, i.e. whose download_file has returned.
C9_StateMachine ==
    /\ [][run' = run =>
            \A i \in Resources :
                /\ status'[i] # status[i] => <<status[i], status'[i]>> \in Transitions
                /\ dlCalls'[i] # dlCalls[i] =>
                      status[i] = "Pending" /\ status'[i] = "Fetching"
                /\ exCalls'[i] # exCalls[i] =>
                      status[i] = "Fetched" /\ status'[i] = "Extracting"]_vars
    /\ [](\A i \in Resources :
            /\ dlCalls[i] <= 1
            /\ exCalls[i] <= dlCalls[i]
            /\ dlCalls[i] = 1 <=> status[i] \notin {"Pending", "Skipped"}
            /\ exCalls[i] = 1 => status[i] \in {"Extracting", "Done", "Failed"})

\* one file was skipped, one failed in extraction and one is Done
C9_Witness ==
    \E i, j, k \in Resources :
        /\ status[i] = "Skipped"
        /\ status[j] = "Failed" /\ exCalls[j] = 1
        /\ status[k] = "Done"

\* the current file is inside extract_gzip
Extracting(i) == idx = i /\ pc \in {"open_files", "copy", "remove"}

\* C10 (stale archive): a file that starts the run with an archive and no
\* extracted file has download_file called as soon as the loop reaches it;
\* while extract_gzip works on it the archive holds exactly the body just
\* served, and what is written to the extracted file is a prefix of that
\* body's decompression, never the stale archive's content.
C10_StaleArchive ==
    \A i \in Resources :
        (fs0[GzPath(i)].exists /\ ~fs0[TsvPath(i)].exists) =>
            /\ status[i] # "Pending" => dlCalls[i] = 1
            /\ exCalls[i] = 1 => response[i].got
            /\ Extracting(i) => fs[GzPath(i)] = File(response[i].body)
            /\ ~response[i].got => fs[GzPath(i)] = fs0[GzPath(i)]
            /\ fs[TsvPath(i)].exists =>
                  /\ exCalls[i] = 1
                  /\ IsPrefix(fs[TsvPath(i)].data, Gunzip(response[i].body).out)

\* a stale archive of other content was there at the start; the file is Done
\* with the decompression of the served body
C10_Witness ==
    \E i \in Resources :
        /\ fs0[GzPath(i)].exists
        /\ fs0[GzPath(i)].data # response[i].body
        /\ ~fs0[TsvPath(i)].exists
        /\ status[i] = "Done"
        /\ fs[TsvPath(i)] = File(<<1, 2>>)

\* the two paths of a file of the list
OwnPaths(i) == {GzPath(i), TsvPath(i), OutputPath(GzPath(i))}

\* what the processing of file i leaves at its two paths, given only what
\* was there when the run started, the body served for it and how it ended
OwnOutcome(i) ==
    LET gz0 == fs0[GzPath(i)]
        tsv0 == fs0[TsvPath(i)]
        gz == fs[GzPath(i)]
        tsv == fs[TsvPath(i)]
        body == response[i].body
    IN  CASE status[i] = "Skipped" -> gz = gz0 /\ tsv = tsv0
          [] status[i] = "Done" -> gz = NoFile /\ tsv = File(Gunzip(body).out)
          [] status[i] = "Failed" /\ failure[i] \in {"connection", "http_status"} ->
                gz = gz0 /\ tsv = tsv0
          [] status[i] = "Failed" /\ failure[i] = "dest_open" ->
                gz = gz0 /\ tsv = tsv0
          [] status[i] = "Failed" /\ failure[i] = "stream" ->
                gz.exists /\ IsPrefix(gz.data, body) /\ tsv = tsv0
          [] status[i] = "Failed" /\ failure[i] = "output_open" ->
                gz = File(body) /\ tsv = tsv0
          [] status[i] = "Failed" /\ failure[i] = "decompress" ->
                gz = File(body) /\ tsv = File(Gunzip(body).out)
          [] status[i] = "Failed" /\ failure[i] = "io" ->
                gz = File(body) /\ tsv.exists /\ IsPrefix(tsv.data, Gunzip(body).out)
          [] status[i] = "Failed" /\ failure[i] = "remove" ->
                gz = File(body) /\ tsv = File(Gunzip(body).out)
          [] OTHER -> FALSE

InFlight == {i \in Resources : status[i] \in {"Fetching", "Fetched", "Extracting"}}

\* C12 (sequential processing): at every moment at most one file is being
\* fetched or extracted, it is the file the loop is at, and a file has left
\* Pending only if every file before it in the list is Skipped, Done or
\* Failed.
C12_Sequential ==
    /\ Cardinality(InFlight) <= 1
    /\ \A i \in InFlight : i = idx /\ pc \notin {"start", "check", "done", "raised"}
    /\ \A i \in Resources :
          (i < NumFiles /\ status[i + 1] # "Pending") => Resolved(i)

\* the third file is being extracted after the first two were resolved
C12_Witness ==
    /\ status[3] = "Extracting"
    /\ pc = "copy"
    /\ status[1] = "Done"
    /\ status[2] = "Failed"
    /\ status[4] = "Pending"

\* the failures of extract_gzip that come after the output file was opened
AfterOutputOpened == {"decompress", "io", "remove"}

\* the failures of download_file
FetchFailures == {"connection", "http_status", "dest_open", "stream"}

\* a step that starts the next run
StartsNextRun == run' = run + 1

\* C13 (poisoned marker): when extract_gzip fails after it opened its output
\* (corrupt archive, I/O error, archive not removed) the extracted path and
\* the archive exist from then on; the next run starts with that extracted
\* file in place; and a run that starts with an extracted file skips the
\* file without download_file or extract_gzip and leaves both its extracted
\* file and its archive as they were, so every later run does the same.
C13_PoisonedMarker ==
    /\ [](\A i \in Resources :
            failure[i] \in AfterOutputOpened =>
                /\ status[i] = "Failed"
                /\ fs[TsvPath(i)].exists
                /\ IsPrefix(fs[TsvPath(i)].data, Gunzip(response[i].body).out)
                /\ fs[GzPath(i)].exists)
    /\ [][StartsNextRun =>
            \A i \in Resources :
                failure[i] \in AfterOutputOpened =>
                    /\ fs0'[TsvPath(i)] = fs[TsvPath(i)]
                    /\ fs0'[TsvPath(i)].exists
                    /\ fs0'[GzPath(i)].exists]_vars
    /\ [](\A i \in Resources :
            fs0[TsvPath(i)].exists =>
                /\ dlCalls[i] = 0 /\ exCalls[i] = 0
                /\ status[i] # "Pending" => status[i] = "Skipped"
                /\ fs[TsvPath(i)] = fs0[TsvPath(i)]
                /\ fs[GzPath(i)] = fs0[GzPath(i)])

\* a second run has skipped a file whose truncated extracted file and whose
\* corrupt archive were left by the first run
C13_Witness ==
    \E i \in Resources :
        /\ run = 2
        /\ pc = "done"
        /\ status[i] = "Skipped"
        /\ fs[TsvPath(i)] = File(<<1>>)
        /\ fs[GzPath(i)] = File(<<0, 11>>)

\* C14 (fetch failure is retried): no step of download_file changes an
\* extracted file; a file whose fetch failed has no extracted file, at the
\* failure and when the next run starts; and a run that starts without the
\* extracted file of a file calls download_file for it once the loop is past it.
C14_FetchRetried ==
    /\ [][(pc \in {"get", "open_dest", "stream"}) =>
            \A p \in PlainPaths : (fs'[p] = fs[p])]_vars
    /\ [](\A i \in Resources :
            failure[i] \in FetchFailures =>
                /\ status[i] = "Failed"
                /\ exCalls[i] = 0
                /\ ~fs[TsvPath(i)].exists)
    /\ [][StartsNextRun =>
            \A i \in Resources :
                failure[i] \in FetchFailures => ~fs0'[TsvPath(i)].exists]_vars
    /\ [](\A i \in Resources :
            (~fs0[TsvPath(i)].exists /\ status[i] # "Pending") => dlCalls[i] = 1)
    /\ [](pc = "done" => \A i \in Resources : status[i] # "Pending")

\* a second run fetched again, and extracted, a file whose first fetch broke
\* after one chunk
C14_Witness ==
    \E i \in Resources :
        /\ run = 2
        /\ fs0[GzPath(i)] = File(<<0>>)
        /\ ~fs0[TsvPath(i)].exists
        /\ dlCalls[i] = 1
        /\ status[i] = "Done"

\* C15 (marker path agreement): for each file of the list the output path
\* of extract_gzip is the extracted path the loop tests; a Done file has
\* that path on disk, the next run starts with it, and a run that starts
\* with it skips the file.
C15_MarkerPaths ==
    /\ [](\A i \in Resources : OutputPath(GzPath(i)) = TsvPath(i))
    /\ [](\A i \in Resources : status[i] = "Done" => fs[TsvPath(i)].exists)
    /\ [][StartsNextRun =>
            \A i \in Resources : status[i] = "Done" => fs0'[TsvPath(i)].exists]_vars
    /\ [](\A i \in Resources :
            (fs0[TsvPath(i)].exists /\ (idx > i \/ pc = "done")) => status[i] = "Skipped")

\* a second run has skipped a file that the first run extracted
C15_Witness ==
    \E i \in Resources :
        /\ run = 2
        /\ status[i] = "Skipped"
        /\ fs[TsvPath(i)] = File(<<1, 2>>)
        /\ ~fs[GzPath(i)].exists

====
